---- MODULE Spec2Model ----
(***************************************************************************)
(* Model of the degree-2 polynomial feature kernel vec_poly of the         *)
(* notebook "5. Health Outcomes with Linear Regression.ipynb" and of the   *)
(* caller cells that lay out its arguments in memory.                      *)
(*                                                                         *)
(* Arrays are modelled as flat memory plus a storage order ("C" row-major, *)
(* "F" column-major); an element access goes through the address the       *)
(* strides give.  Entries are integers: every output entry is a copy or a  *)
(* single product, so no rounding accumulates.                             *)
(***************************************************************************)
EXTENDS Integers, Sequences, FiniteSets, Bags, TLC

\* ---- bounds of the model ------------------------------------------------
MaxM == 2
MaxN == 2

\* the entries of the generic inputs
Vals == {1, 2}
Orders == {"C", "F"}
Fills == {"zeros", "stale"}
\* res.shape minus (m, n_feat): the shape the caller computes, or one row
\* or one column too few or too many
ShapeDeltas == {<<0, 0>>, <<-1, 0>>, <<1, 0>>, <<0, -1>>, <<0, 1>>}

\* the concrete 2 x 2 scenario of the specification, [[1,2],[3,4]]
ScenarioX == <<<<1, 2>>, <<3, 4>>>>

\* ---- the caller's arithmetic and the array layout ------------------------
\* n_feat = n*(n+1)//2 + n
NFeat(nn) == (nn * (nn + 1)) \div 2 + nn

\* linear address of element [k, c] of a rows x cols array stored in `order`
AddrSwapped(order, rows, cols, k, c) ==
    IF order = "C" THEN c * rows + k ELSE k * cols + c
Addr(order, rows, cols, k, c) ==
    IF order = "C" THEN k * cols + c ELSE c * rows + k

Cells(rows, cols) == 0 .. (rows * cols - 1)

\* the logical row and column of a linear address
RowOf(order, rows, cols, a) == IF order = "C" THEN a \div cols ELSE a % rows
ColOf(order, rows, cols, a) == IF order = "C" THEN a % cols ELSE a \div rows

\* np.asfortranarray / np.ascontiguousarray: same values, storage order `to`
Relayout(mem, from, to, rows, cols) ==
    [a \in Cells(rows, cols) |->
        mem[Addr(from, rows, cols, RowOf(to, rows, cols, a),
                                   ColOf(to, rows, cols, a))]]

\* the logical matrix held by a buffer
Logical(mem, order, rows, cols) ==
    [p \in (0 .. rows - 1) \X (0 .. cols - 1) |->
        mem[Addr(order, rows, cols, p[1], p[2])]]

\* prior contents of a freshly obtained buffer: np.zeros, or stale memory
FillMem(fill, rows, cols) ==
    [a \in Cells(rows, cols) |-> IF fill = "zeros" THEN 0 ELSE 0 - (a + 1)]

ScenarioMem(order) ==
    [a \in Cells(2, 2) |->
        ScenarioX[RowOf(order, 2, 2, a) + 1][ColOf(order, 2, 2, a) + 1]]

\* ---- the library expansion (PolynomialFeatures, include_bias=False) ------
\* its columns, as the notebook prints their names: the n variables, then
\* the products x_a x_b in lexicographic order over a <= b
RECURSIVE LibPairsFrom(_, _, _)
LibPairsFrom(a, b, nn) ==
    IF a >= nn THEN <<>>
    ELSE IF b >= nn THEN LibPairsFrom(a + 1, a + 1, nn)
    ELSE <<<<a, b>>>> \o LibPairsFrom(a, b + 1, nn)

LibFeatures(nn) == [c \in 1 .. nn |-> <<c - 1>>] \o LibPairsFrom(0, 0, nn)

VARIABLES
    m, n,            \* x.shape
    xmem, xorder,    \* the input matrix x
    rm, rc,          \* res.shape
    resmem, resorder,\* the output buffer res
    res0,            \* contents of res when the current call started
    pc,              \* position in vec_poly
    i, j, k,         \* loop variables
    feat_idx,        \* column counter
    wlog,            \* the stores of the current call, in order, each with
                     \* its index, its address and the feature it computes
                     \* (<<i>> a copy of column i, <<i, j>> a product)
    last,            \* the logical output of the previous completed call
    bench            \* the state of the benchmark cells (proc_python,
                     \* proc_numpy, proc_numba, vec_numba)

kvars == <<m, n, xmem, xorder, rm, rc, resmem, resorder, res0,
           pc, i, j, k, feat_idx, wlog, last>>
vars == <<kvars, bench>>

\* ---- element access ------------------------------------------------------
XAt(kk, cc) == xmem[Addr(xorder, m, n, kk, cc)]
ResAt(kk, cc) == resmem[Addr(resorder, rm, rc, kk, cc)]

\* v1 = x[:, i] is a view of column i
V1Contig(kk) == xmem[kk * n + i]
V1(kk) == XAt(kk, i)

\* right-hand sides of the two stores
CopyValueSquared(kk) == V1(kk) * V1(kk)
CopyValue(kk) == V1(kk)
ProdValueSelf(kk, jj) == XAt(kk, jj) * XAt(kk, jj)
ProdValueSum(kk, jj) == V1(kk) + XAt(kk, jj)
ProdValue(kk, jj) == V1(kk) * XAt(kk, jj)

\* for j in range(i, n): first value of j
InnerStartAll(ii) == 0
InnerStartStrict(ii) == ii + 1
InnerStart(ii) == ii

\* the benchmark cells are not run
BenchOff == [phase |-> "off"]

NoLast == [has |-> FALSE, rows |-> 0, cols |-> 0, val |-> <<>>,
           xorder |-> "C", resorder |-> "C"]
Output == [has |-> TRUE, rows |-> rm, cols |-> rc,
           val |-> Logical(resmem, resorder, rm, rc),
           xorder |-> xorder, resorder |-> resorder]

Init ==
    /\ m \in 0 .. MaxM
    /\ n \in 0 .. MaxN
    /\ xorder \in Orders
    /\ \/ xmem \in [Cells(m, n) -> Vals]
       \/ m = 2 /\ n = 2 /\ xmem = ScenarioMem(xorder)
    /\ \E d \in ShapeDeltas :
          /\ m + d[1] >= 0 /\ NFeat(n) + d[2] >= 0
          /\ rm = m + d[1]
          /\ rc = NFeat(n) + d[2]
    /\ resorder \in Orders
    /\ \E f \in Fills :
          \* np.zeros((m, n_feat)) has the computed shape; any other buffer
          \* comes with whatever it held
          /\ f = "zeros" => (rm = m /\ rc = NFeat(n))
          /\ resmem = FillMem(f, rm, rc)
    /\ res0 = resmem
    /\ pc = "idle"
    /\ i = 0 /\ j = 0 /\ k = 0 /\ feat_idx = 0
    /\ wlog = <<>>
    /\ last = NoLast
    /\ bench = BenchOff

\* ---- the kernel ----------------------------------------------------------
\* m,n = x.shape ; feat_idx = 0
Enter ==
    /\ pc' = "outer"
    /\ i' = 0 /\ j' = 0 /\ k' = 0 /\ feat_idx' = 0
    /\ wlog' = <<>>
    /\ res0' = resmem

Call ==
    /\ pc = "idle"
    /\ Enter
    /\ UNCHANGED <<m, n, xmem, xorder, rm, rc, resmem, resorder, last, bench>>

\* res[kk, cc] = v, compiled without bounds checking: the store goes to the
\* address the strides give.  An index outside res.shape is undefined
\* behaviour: the store lands on another cell of res or outside the buffer,
\* the process dies, or (bounds-checked build) IndexError is raised.
StoreOkAccumulate(kk, cc, v, f) ==
    /\ kk < rm /\ cc < rc
    /\ resmem' = [resmem EXCEPT ![Addr(resorder, rm, rc, kk, cc)] = @ + v]
    /\ wlog' = Append(wlog, [row |-> kk, col |-> cc, src |-> f,
                             addr |-> Addr(resorder, rm, rc, kk, cc)])
    /\ k' = kk + 1
    /\ pc' = pc

StoreOk(kk, cc, v, f) ==
    /\ kk < rm /\ cc < rc
    /\ resmem' = [resmem EXCEPT ![Addr(resorder, rm, rc, kk, cc)] = v]
    /\ wlog' = Append(wlog, [row |-> kk, col |-> cc, src |-> f,
                             addr |-> Addr(resorder, rm, rc, kk, cc)])
    /\ k' = kk + 1
    /\ pc' = pc

StoreWild(kk, cc, v, f) ==
    /\ ~(kk < rm /\ cc < rc)
    /\ LET a == Addr(resorder, rm, rc, kk, cc) IN
          /\ resmem' = IF a \in Cells(rm, rc)
                       THEN [resmem EXCEPT ![a] = v] ELSE resmem
          /\ wlog' = Append(wlog, [row |-> kk, col |-> cc, src |-> f,
                                   addr |-> a])
    /\ k' = kk + 1
    /\ pc' = pc

StoreIndexError(kk, cc) ==
    /\ ~(kk < rm /\ cc < rc)
    /\ pc' = "IndexError"
    /\ UNCHANGED <<resmem, wlog, k>>

StoreCrash(kk, cc) ==
    /\ ~(kk < rm /\ cc < rc)
    /\ Addr(resorder, rm, rc, kk, cc) \notin Cells(rm, rc)
    /\ pc' = "crashed"
    /\ UNCHANGED <<resmem, wlog, k>>

Store(kk, cc, v, f) ==
    \/ StoreOk(kk, cc, v, f)
    \/ StoreWild(kk, cc, v, f)
    \/ StoreIndexError(kk, cc)
    \/ StoreCrash(kk, cc)

\* for i in range(n): v1 = x[:, i]
OuterEnter ==
    /\ pc = "outer" /\ i < n
    /\ k' = 0
    /\ pc' = "copy"
    /\ UNCHANGED <<m, n, xmem, xorder, rm, rc, resmem, resorder, res0,
                   i, j, feat_idx, wlog, last, bench>>

\* the outer loop is exhausted: the call returns
Return ==
    /\ pc = "outer" /\ ~(i < n)
    /\ pc' = "done"
    /\ UNCHANGED <<m, n, xmem, xorder, rm, rc, resmem, resorder, res0,
                   i, j, k, feat_idx, wlog, last, bench>>

\* for k in range(m): res[k, feat_idx] = v1[k]
CopyStep ==
    /\ pc = "copy" /\ k < m
    /\ Store(k, feat_idx, CopyValue(k), <<i>>)
    /\ UNCHANGED <<m, n, xmem, xorder, rm, rc, resorder, res0,
                   i, j, feat_idx, last, bench>>

\* feat_idx += 1 ; for j in range(i, n)
CopyDone ==
    /\ pc = "copy" /\ ~(k < m)
    /\ feat_idx' = feat_idx + 1
    /\ j' = InnerStart(i)
    /\ pc' = "inner"
    /\ UNCHANGED <<m, n, xmem, xorder, rm, rc, resmem, resorder, res0,
                   i, k, wlog, last, bench>>

InnerEnter ==
    /\ pc = "inner" /\ j < n
    /\ k' = 0
    /\ pc' = "prod"
    /\ UNCHANGED <<m, n, xmem, xorder, rm, rc, resmem, resorder, res0,
                   i, j, feat_idx, wlog, last, bench>>

\* the inner loop is exhausted: next i
InnerExit ==
    /\ pc = "inner" /\ ~(j < n)
    /\ i' = i + 1
    /\ pc' = "outer"
    /\ UNCHANGED <<m, n, xmem, xorder, rm, rc, resmem, resorder, res0,
                   j, k, feat_idx, wlog, last, bench>>

ProdStepInPlace ==
    /\ pc = "prod" /\ k < m
    /\ xmem' = [xmem EXCEPT ![Addr(xorder, m, n, k, i)] = ProdValue(k, j)]
    /\ Store(k, feat_idx, ProdValue(k, j), <<i, j>>)
    /\ UNCHANGED <<m, n, xorder, rm, rc, resorder, res0,
                   i, j, feat_idx, last, bench>>

\* for k in range(m): res[k, feat_idx] = v1[k] * x[k, j]
ProdStep ==
    /\ pc = "prod" /\ k < m
    /\ Store(k, feat_idx, ProdValue(k, j), <<i, j>>)
    /\ UNCHANGED <<m, n, xmem, xorder, rm, rc, resorder, res0,
                   i, j, feat_idx, last, bench>>

ProdDoneNoInc ==
    /\ pc = "prod" /\ ~(k < m)
    /\ j' = j + 1
    /\ pc' = "inner"
    /\ UNCHANGED <<m, n, xmem, xorder, rm, rc, resmem, resorder, res0,
                   i, k, feat_idx, wlog, last, bench>>

\* feat_idx += 1 ; next j
ProdDone ==
    /\ pc = "prod" /\ ~(k < m)
    /\ feat_idx' = feat_idx + 1
    /\ j' = j + 1
    /\ pc' = "inner"
    /\ UNCHANGED <<m, n, xmem, xorder, rm, rc, resmem, resorder, res0,
                   i, k, wlog, last, bench>>

\* ---- the caller ----------------------------------------------------------
\* %timeit vec_poly(trn, trn_feat): the call is repeated on the same buffers
Timeit ==
    /\ pc = "done"
    /\ rm = m /\ rc = NFeat(n)
    /\ last' = Output
    /\ Enter
    /\ UNCHANGED <<m, n, xmem, xorder, rm, rc, resmem, resorder, bench>>

\* trn = np.asfortranarray(trn) ; n_feat = n*(n+1)//2 + n ;
\* trn_feat = np.zeros((m, n_feat), order='F')
\* (x is converted to the other storage order, whichever it has; the new
\* buffer has either order and may hold stale contents)
Realloc ==
    /\ pc = "done"
    /\ rm = m /\ rc = NFeat(n)
    /\ last' = Output
    /\ \E xo \in Orders \ {xorder} :
          /\ xorder' = xo
          /\ xmem' = Relayout(xmem, xorder, xo, m, n)
    /\ rm' = m
    /\ rc' = NFeat(n)
    /\ resorder' \in Orders
    /\ \E f \in Fills : resmem' = FillMem(f, rm', rc')
    /\ res0' = resmem'
    /\ pc' = "idle"
    /\ i' = 0 /\ j' = 0 /\ k' = 0 /\ feat_idx' = 0
    /\ wlog' = <<>>
    /\ UNCHANGED <<m, n, bench>>

Next ==
    \/ Call
    \/ OuterEnter
    \/ Return
    \/ CopyStep
    \/ CopyDone
    \/ InnerEnter
    \/ InnerExit
    \/ ProdStep
    \/ ProdDone
    \/ Timeit
    \/ Realloc

Spec == Init /\ [][Next]_vars

\* The notebook runs its cells one after the other and a call runs to its
\* end: some step is taken whenever one is possible.  No branch of vec_poly
\* looks at an entry of x, so one input of each shape shows every control
\* path.
InitLive == Init /\ \A a \in Cells(m, n) : xmem[a] = 2
SpecLive == InitLive /\ [][Next]_vars /\ WF_vars(Next)

TypeOK ==
    /\ pc \in {"idle", "outer", "copy", "inner", "prod", "done",
               "IndexError", "crashed"}
    /\ feat_idx \in 0 .. NFeat(MaxN)

\* ---- the benchmark cells ------------------------------------------------
\* proc_python, proc_numpy, proc_numba and vec_numba applied to the same
\* vectors x, y of length nobs.  The inputs are whole numbers; a result
\* z * (z - .88) is held exactly, in hundredths.  The rounding of float32
\* arithmetic is outside the model.
MaxObs == 2
BenchVals == {-1, 0, 2}
Idx(nn) == 0 .. nn - 1

\* np.zeros(nobs), or a buffer holding earlier results
BenchFill(fill, nn) ==
    [t \in Idx(nn) |-> IF fill = "zeros" THEN 0 ELSE 0 - (t + 1)]

\* the loop body of proc_python
PyBodyStale(x0, y0) ==
    LET x1 == x0 * 2 - (y0 * 55)
        y1 == x0 + y0 * 2
        z1 == x1 + y1 + 99
    IN  z1 * (100 * z1 - 88)
PyBody(x0, y0) ==
    LET x1 == x0 * 2 - (y0 * 55)
        y1 == x1 + y0 * 2
        z1 == x1 + y1 + 99
    IN  z1 * (100 * z1 - 88)

\* whole-array operations of numpy
ArrScale(a, c) == [t \in DOMAIN a |-> a[t] * c]
ArrAdd(a, b) == [t \in DOMAIN a |-> a[t] + b[t]]
ArrSub(a, b) == [t \in DOMAIN a |-> a[t] - b[t]]
ArrAddScalar(a, c) == [t \in DOMAIN a |-> a[t] + c]
\* z * (z - .88), in hundredths
ArrTimesLess88(a) == [t \in DOMAIN a |-> a[t] * (100 * a[t] - 88)]

\* proc_numpy: z = np.zeros(nobs) is overwritten by the later assignments
ProcNumpy(xa, ya) ==
    LET x1 == ArrSub(ArrScale(xa, 2), ArrScale(ya, 55))
        y1 == ArrAdd(x1, ArrScale(ya, 2))
        z1 == ArrAddScalar(ArrAdd(x1, y1), 99)
    IN  ArrTimesLess88(z1)

\* the loop body of proc_numba
NumbaBody(x0, y0) ==
    LET x1 == x0 * 2 - (y0 * 55)
        y1 == x1 + y0 * 2
        z1 == x1 + y1 + 99
    IN  z1 * (100 * z1 - 88)

\* vec_numba, applied to one pair of elements
VecBody(x0, y0) ==
    LET x1 == x0 * 2 - (y0 * 55)
        y1 == x1 + y0 * 2
        z1 == x1 + y1 + 99
    IN  z1 * (100 * z1 - 88)

\* the vectorized function applied elementwise
VecNumba(xa, ya) == [t \in DOMAIN xa |-> VecBody(xa[t], ya[t])]

\* the kernel is not run while the benchmark cells are
KernelIdle ==
    /\ m = 0 /\ n = 0
    /\ xorder = "C" /\ xmem = FillMem("zeros", 0, 0)
    /\ rm = 0 /\ rc = 0
    /\ resorder = "C" /\ resmem = FillMem("zeros", 0, 0)
    /\ res0 = resmem
    /\ pc = "idle"
    /\ i = 0 /\ j = 0 /\ k = 0 /\ feat_idx = 0
    /\ wlog = <<>>
    /\ last = NoLast

\* nobs, x, y and the buffer z handed to proc_numba
InitBench ==
    /\ KernelIdle
    /\ \E nn \in 0 .. MaxObs, f \in Fills :
       \E xa \in [Idx(nn) -> BenchVals], ya \in [Idx(nn) -> BenchVals] :
          bench = [phase |-> "python_call", nobs |-> nn, xx |-> xa, yy |-> ya,
                   jj |-> 0, zz |-> <<>>, z |-> BenchFill(f, nn),
                   z0 |-> BenchFill(f, nn),
                   py |-> <<>>, np |-> <<>>, nb |-> <<>>, vec |-> <<>>]

\* proc_python(x, y): zz = np.zeros(nobs, dtype='float32')
PyCall ==
    /\ bench.phase = "python_call"
    /\ bench' = [bench EXCEPT !.phase = "python", !.jj = 0,
                              !.zz = BenchFill("zeros", bench.nobs)]
    /\ UNCHANGED kvars

\* for j in range(nobs): ... zz[j] = z
PyStep ==
    /\ bench.phase = "python" /\ bench.jj < bench.nobs
    /\ bench' = [bench EXCEPT
                    !.zz[bench.jj] = PyBody(bench.xx[bench.jj], bench.yy[bench.jj]),
                    !.jj = bench.jj + 1]
    /\ UNCHANGED kvars

\* return zz
PyReturn ==
    /\ bench.phase = "python" /\ ~(bench.jj < bench.nobs)
    /\ bench' = [bench EXCEPT !.py = bench.zz, !.phase = "numpy_call"]
    /\ UNCHANGED kvars

\* proc_numpy(x, y)
NumpyCall ==
    /\ bench.phase = "numpy_call"
    /\ bench' = [bench EXCEPT !.np = ProcNumpy(bench.xx, bench.yy),
                              !.phase = "numba_call"]
    /\ UNCHANGED kvars

\* proc_numba(x, y, z)
NumbaCall ==
    /\ bench.phase = "numba_call"
    /\ bench' = [bench EXCEPT !.jj = 0, !.phase = "numba"]
    /\ UNCHANGED kvars

\* for j in range(nobs): ... zz[j] = z, zz being the caller's z
NumbaStep ==
    /\ bench.phase = "numba" /\ bench.jj < bench.nobs
    /\ bench' = [bench EXCEPT
                    !.z[bench.jj] = NumbaBody(bench.xx[bench.jj], bench.yy[bench.jj]),
                    !.jj = bench.jj + 1]
    /\ UNCHANGED kvars

\* return zz
NumbaReturn ==
    /\ bench.phase = "numba" /\ ~(bench.jj < bench.nobs)
    /\ bench' = [bench EXCEPT !.nb = bench.z, !.phase = "vec_call"]
    /\ UNCHANGED kvars

\* vec_numba(x, y)
VecCall ==
    /\ bench.phase = "vec_call"
    /\ bench' = [bench EXCEPT !.vec = VecNumba(bench.xx, bench.yy),
                              !.phase = "done"]
    /\ UNCHANGED kvars

NextBench ==
    \/ PyCall
    \/ PyStep
    \/ PyReturn
    \/ NumpyCall
    \/ NumbaCall
    \/ NumbaStep
    \/ NumbaReturn
    \/ VecCall

SpecBench == InitBench /\ [][NextBench]_vars

\* ---- vocabulary of the properties ----------------------------------------
Rows == 0 .. m - 1
Cols == 0 .. n - 1
FeatCols == 0 .. NFeat(n) - 1
ValidInput == m >= 1 /\ n >= 1
ExactShape == rm = m /\ rc = NFeat(n)
Returned == pc = "done"
Stores == 1 .. Len(wlog)
StoredCols == {wlog[t].col : t \in Stores}

\* first output column of the block of input column ii
S(ii) == ii * (n + 1) - (ii * (ii - 1)) \div 2

\* the features of the expansion: <<a>> is x_a, <<a, b>> is x_a * x_b
Features == {<<a>> : a \in Cols} \cup
            {<<p[1], p[2]>> : p \in {q \in Cols \X Cols : q[1] <= q[2]}}
FeatureAt(kk, f) ==
    IF Len(f) = 1 THEN XAt(kk, f[1]) ELSE XAt(kk, f[1]) * XAt(kk, f[2])
FeatureVec(f) == [kk \in Rows |-> FeatureAt(kk, f)]
ColVec(cc) == [kk \in Rows |-> ResAt(kk, cc)]
BagOfImage(D, F(_)) ==
    [v \in {F(d) : d \in D} |-> Cardinality({d \in D : F(d) = v})]

\* C1: for m >= 1 and n >= 1 no store targets a column >= n_feat or a row
\* >= m, and when the call returns feat_idx = n_feat and the stores have
\* covered exactly the columns 0 .. n_feat-1.
C1_ColumnRange ==
    ValidInput =>
        /\ \A t \in Stores : wlog[t].col < NFeat(n) /\ wlog[t].row < m
        /\ Returned => /\ feat_idx = NFeat(n)
                       /\ StoredCols = FeatCols
                       /\ NFeat(n) = n + (n * (n + 1)) \div 2

C1_Witness ==
    /\ Returned /\ ExactShape /\ m = 2 /\ n = 2
    /\ feat_idx = 5 /\ Len(wlog) = 10

\* C2: after the call, for every i and row k, res[k, s(i)] = x[k, i] with
\* s(i) = i*(n+1) - i*(i-1)/2, and for every j in i..n-1,
\* res[k, s(i) + 1 + (j - i)] = x[k, i] * x[k, j].
C2_Ordering ==
    (ValidInput /\ ExactShape /\ Returned) =>
        \A ii \in Cols, kk \in Rows :
            /\ ResAt(kk, S(ii)) = XAt(kk, ii)
            /\ \A jj \in ii .. n - 1 :
                  ResAt(kk, S(ii) + 1 + (jj - ii)) = XAt(kk, ii) * XAt(kk, jj)

C2_Witness ==
    /\ Returned /\ ExactShape /\ m = 2 /\ n = 2
    /\ XAt(1, 0) = 2 /\ XAt(1, 1) = 1
    /\ ResAt(1, 3) = 1 /\ ResAt(1, 2) = 2 /\ ResAt(1, 1) = 4

\* C3 as stated: after the expansion, output column i equals input column i
\* for every i in 0..n-1.
C3_FirstColumnsAreCopies ==
    (ValidInput /\ ExactShape /\ Returned) =>
        \A ii \in Cols, kk \in Rows : ResAt(kk, ii) = XAt(kk, ii)

\* C3 (amended): after the expansion, output column s(i) equals input
\* column i in every row, for every i in 0..n-1; output column i equals
\* input column i for i = 0, and for every i when n = 1.
C3_CopiesAtBlockStarts ==
    (ValidInput /\ ExactShape /\ Returned) =>
        \A ii \in Cols, kk \in Rows :
            /\ ResAt(kk, S(ii)) = XAt(kk, ii)
            /\ (ii = 0 \/ n = 1) => ResAt(kk, ii) = XAt(kk, ii)

C3_Witness ==
    /\ Returned /\ ExactShape /\ m = 2 /\ n = 2
    /\ XAt(0, 0) = 2 /\ XAt(0, 1) = 1
    /\ ResAt(0, 1) = 4 /\ ResAt(0, S(1)) = 1 /\ S(1) = 3

\* library column cc (0-based) evaluated on row kk of x
LibAt(kk, cc) == FeatureAt(kk, LibFeatures(n)[cc + 1])

\* the output column in which vec_poly puts feature f
ColumnOf(f) == IF Len(f) = 1 THEN S(f[1]) ELSE S(f[1]) + 1 + (f[2] - f[1])

\* C4 as stated: the output equals the library expansion column for column:
\* columns 0..n-1 are the variables and column n + p is the p-th product in
\* lexicographic order.
C4_SameAsLibrary ==
    (ValidInput /\ ExactShape /\ Returned) =>
        /\ Len(LibFeatures(n)) = NFeat(n)
        /\ \A cc \in FeatCols, kk \in Rows : ResAt(kk, cc) = LibAt(kk, cc)

\* C4 (amended): the output holds the columns of the library expansion in
\* another order: library column c, of feature f (x_i or x_i * x_j), is
\* output column s(i) for a variable and s(i) + 1 + (j - i) for a product,
\* and this is a one-to-one correspondence of the n_feat columns; the two
\* matrices agree column for column when n = 1.
C4_LibraryColumnsPermuted ==
    (ValidInput /\ ExactShape /\ Returned) =>
        LET lib == LibFeatures(n) IN
        /\ Len(lib) = NFeat(n)
        /\ {ColumnOf(lib[c]) : c \in 1 .. Len(lib)} = FeatCols
        /\ \A c \in 1 .. Len(lib), kk \in Rows :
              ResAt(kk, ColumnOf(lib[c])) = LibAt(kk, c - 1)
        /\ n = 1 => \A cc \in FeatCols, kk \in Rows :
                        ResAt(kk, cc) = LibAt(kk, cc)

C4_Witness ==
    /\ Returned /\ ExactShape /\ m = 2 /\ n = 2
    /\ XAt(0, 0) = 2 /\ XAt(0, 1) = 1
    /\ LibAt(0, 1) = 1 /\ ResAt(0, 1) = 4
    /\ LibAt(0, 2) = 4 /\ ColumnOf(LibFeatures(n)[3]) = 1

\* C5: every feature (each x_i, each product x_i * x_j with i <= j) is
\* computed into exactly one output column, which holds its values; no
\* store computes a product with i > j; and the output columns are, as a
\* multiset of columns, the features.
C5_EachPairOnce ==
    (ValidInput /\ ExactShape /\ Returned) =>
        /\ \A t \in Stores : wlog[t].src \in Features
        /\ \A f \in Features :
              /\ Cardinality({wlog[t].col : t \in {u \in Stores : wlog[u].src = f}}) = 1
              /\ \A t \in Stores :
                    wlog[t].src = f => ColVec(wlog[t].col) = FeatureVec(f)
        /\ Cardinality(Features) = NFeat(n)
        /\ BagOfImage(FeatCols, ColVec) = BagOfImage(Features, FeatureVec)

C5_Witness ==
    /\ Returned /\ ExactShape /\ m = 2 /\ n = 2
    /\ XAt(0, 0) = 1 /\ XAt(1, 0) = 2 /\ XAt(0, 1) = 2 /\ XAt(1, 1) = 1
    /\ \E t \in Stores : wlog[t].src = <<0, 1>> /\ wlog[t].col = 2
    /\ ColVec(2) = [kk \in Rows |-> 2]

\* the input of the concrete scenario
IsScenario ==
    /\ m = 2 /\ n = 2
    /\ \A kk \in Rows, cc \in Cols : XAt(kk, cc) = ScenarioX[kk + 1][cc + 1]

\* C6 as stated: for x = [[1,2],[3,4]] the output is
\* [[1,2,1,2,4],[3,4,9,12,16]].
C6_ScenarioOutput ==
    (IsScenario /\ ExactShape /\ Returned) =>
        Logical(resmem, resorder, rm, rc) =
            [p \in (0 .. 1) \X (0 .. 4) |->
                <<<<1, 2, 1, 2, 4>>, <<3, 4, 9, 12, 16>>>>[p[1] + 1][p[2] + 1]]

\* C6 (amended): for x = [[1,2],[3,4]] the columns come in the order
\* [x0, x0*x0, x0*x1, x1, x1*x1]: the output is [[1,1,2,2,4],[3,9,12,4,16]].
C6_ScenarioOutputInterleaved ==
    (IsScenario /\ ExactShape /\ Returned) =>
        Logical(resmem, resorder, rm, rc) =
            [p \in (0 .. 1) \X (0 .. 4) |->
                <<<<1, 1, 2, 2, 4>>, <<3, 9, 12, 4, 16>>>>[p[1] + 1][p[2] + 1]]

C6_Witness ==
    /\ IsScenario /\ ExactShape /\ Returned
    /\ ResAt(1, 1) = 9 /\ ResAt(1, 3) = 4

\* C7: with n = 1 the expansion has exactly 2 columns, [x, x*x].
C7_SingleColumn ==
    (m >= 1 /\ n = 1 /\ ExactShape /\ Returned) =>
        /\ rc = 2 /\ feat_idx = 2 /\ StoredCols = {0, 1}
        /\ \A kk \in Rows : /\ ResAt(kk, 0) = XAt(kk, 0)
                            /\ ResAt(kk, 1) = XAt(kk, 0) * XAt(kk, 0)

C7_Witness ==
    /\ Returned /\ ExactShape /\ n = 1 /\ m = 2
    /\ XAt(1, 0) = 2 /\ ResAt(1, 0) = 2 /\ ResAt(1, 1) = 4

\* C8 as stated: with m = 0 or n = 0 the kernel fails (InvalidShape) and
\* does not return normally.
C8_EmptyInputRejected ==
    (m = 0 \/ n = 0) => ~Returned

\* C8 (amended): with m = 0 or n = 0 the kernel raises nothing: it performs
\* no store, leaves res as it was and returns normally, its column counter
\* at n_feat (which is 0 when n = 0).
C8_EmptyInputReturns ==
    (m = 0 \/ n = 0) =>
        /\ pc \in {"idle", "outer", "copy", "inner", "prod", "done"}
        /\ wlog = <<>>
        /\ resmem = res0
        /\ Returned => feat_idx = NFeat(n)
        /\ n = 0 => NFeat(n) = 0

C8_Witness ==
    /\ Returned /\ m = 0 /\ n = 2 /\ feat_idx = 5
    /\ rm = 1 /\ rc = 5 /\ resmem = res0 /\ resmem[0] = 0 - 1

WrongShape == ~ExactShape
Roomy == rm >= m /\ rc >= NFeat(n)
OutOfRange(w) == ~(w.row < rm /\ w.col < rc)

\* C9 as stated: when res does not have shape (m, n_feat) the kernel fails
\* before storing anything: it does not return normally and every cell of
\* res keeps its pre-call value.
C9_ShapeMismatchBeforeWrite ==
    (ValidInput /\ WrongShape) =>
        /\ ~Returned
        /\ wlog = <<>>
        /\ resmem = res0

\* C9 (amended): the kernel does not check the shape of res.  When res has
\* at least m rows and n_feat columns it never fails and returns with the
\* cells (k, c), k < m, c < n_feat, holding the expansion and every other
\* cell holding its pre-call value.  When res has too few rows or columns
\* the call cannot return without a store at an out-of-range index, and
\* when it fails the in-range stores made so far stay in res.
C9_NoShapeCheck ==
    (ValidInput /\ WrongShape) =>
        /\ Roomy =>
              /\ pc \notin {"IndexError", "crashed"}
              /\ \A t \in Stores : ~OutOfRange(wlog[t])
              /\ Returned =>
                    \A kk \in 0 .. rm - 1, cc \in 0 .. rc - 1 :
                        IF kk < m /\ cc < NFeat(n)
                        THEN \E f \in Features :
                                /\ ColumnOf(f) = cc
                                /\ ResAt(kk, cc) = FeatureAt(kk, f)
                        ELSE ResAt(kk, cc) = res0[Addr(resorder, rm, rc, kk, cc)]
        /\ ~Roomy =>
              /\ Returned => \E t \in Stores : OutOfRange(wlog[t])
              /\ (/\ pc \in {"IndexError", "crashed"}
                  /\ \A t \in Stores : ~OutOfRange(wlog[t])) =>
                    \A t \in Stores :
                        ResAt(wlog[t].row, wlog[t].col) =
                            FeatureAt(wlog[t].row, wlog[t].src)

C9_Witness ==
    /\ Returned /\ m = 2 /\ n = 2 /\ rm = 3 /\ rc = 5
    /\ Len(wlog) = 10
    /\ XAt(1, 1) = 2 /\ ResAt(1, 4) = 4
    /\ ResAt(2, 0) < 0 /\ ResAt(2, 4) < 0

\* C10: two calls on inputs holding the same values, whatever the storage
\* orders of the input and of the output buffer in each call, produce the
\* same output matrix: the same value at every position (k, c).
C10_LayoutIndependent ==
    (/\ ValidInput /\ ExactShape /\ Returned
     /\ last.has /\ last.rows = m /\ last.cols = NFeat(n)) =>
        Logical(resmem, resorder, rm, rc) = last.val

C10_Witness ==
    /\ Returned /\ ExactShape /\ m = 2 /\ n = 2
    /\ last.has /\ last.rows = m /\ last.cols = NFeat(n)
    /\ last.xorder = "C" /\ xorder = "F"
    /\ last.resorder = "C" /\ resorder = "F"
    /\ XAt(0, 1) = 2 /\ XAt(1, 0) = 1
    /\ xmem[1] = 1 /\ xmem[2] = 2
    /\ last.val[<<0, 2>>] = 4

\* the current call runs on the buffer the previous call filled
Rerun == last.has /\ Logical(res0, resorder, rm, rc) = last.val

\* C11: a call repeated on the same input gives the same output, whether
\* it writes a buffer with other prior contents (zeros, stale values) or
\* the buffer the previous call filled; in the latter case no cell of the
\* buffer changes at any step of the second call.
C11_Repeatable ==
    (/\ ValidInput /\ ExactShape
     /\ last.has /\ last.rows = m /\ last.cols = NFeat(n)) =>
        /\ Rerun => resmem = res0
        /\ Returned =>
              \A kk \in Rows, cc \in FeatCols :
                  ResAt(kk, cc) = last.val[<<kk, cc>>]

C11_Witness ==
    /\ Returned /\ ExactShape /\ m = 2 /\ n = 2
    /\ Rerun /\ Len(wlog) = 10
    /\ last.xorder = xorder /\ last.resorder = resorder
    /\ XAt(1, 0) = 2 /\ ResAt(1, 1) = 4 /\ res0 = resmem

\* w * (w - 0.88), in hundredths, with a = 2x - 55y, b = a + 2y, w = a + b + 99
BenchExpected(x0, y0) ==
    LET a == 2 * x0 - 55 * y0
        b == a + 2 * y0
        w == a + b + 99
    IN  100 * w * w - 88 * w

ReadAddr(t, q) == Addr(xorder, m, n, wlog[t].row, wlog[t].src[q])

\* stores t and t + 1 are consecutive steps of one innermost loop
SameInnerLoop(t) == t + 1 <= Len(wlog) /\ wlog[t + 1].col = wlog[t].col

\* C13 as stated: in every innermost-loop step the address of the written
\* element of res and of each element of x read advance by exactly one,
\* for row-major as for column-major arrays.
C13_UnitStrideAnyLayout ==
    (ValidInput /\ ExactShape) =>
        \A t \in Stores :
            SameInnerLoop(t) =>
                /\ wlog[t + 1].addr = wlog[t].addr + 1
                /\ \A q \in 1 .. Len(wlog[t].src) :
                      ReadAddr(t + 1, q) = ReadAddr(t, q) + 1

\* C13 (amended): the innermost loop always runs down a column.  For a
\* column-major array every innermost-loop step advances the address by
\* exactly one element (the written element of res, the read elements of
\* x); for a row-major array it advances the address by the array's number
\* of columns (n_feat for res, n for x).
C13_UnitStrideColumnMajor ==
    (ValidInput /\ ExactShape) =>
        \A t \in Stores :
            SameInnerLoop(t) =>
                /\ wlog[t + 1].row = wlog[t].row + 1
                /\ wlog[t + 1].src = wlog[t].src
                /\ wlog[t + 1].addr - wlog[t].addr =
                       (IF resorder = "F" THEN 1 ELSE NFeat(n))
                /\ \A q \in 1 .. Len(wlog[t].src) :
                      ReadAddr(t + 1, q) - ReadAddr(t, q) =
                          (IF xorder = "F" THEN 1 ELSE n)

C13_Witness ==
    /\ ExactShape /\ m = 2 /\ n = 2 /\ Len(wlog) >= 4
    /\ xorder = "C" /\ resorder = "C"
    /\ SameInnerLoop(3) /\ wlog[3].src = <<0, 0>>
    /\ wlog[4].addr - wlog[3].addr = 5
    /\ ReadAddr(4, 1) - ReadAddr(3, 1) = 2

StoresTo(kk, cc) == {t \in Stores : wlog[t].row = kk /\ wlog[t].col = cc}

\* C15: a call on res of shape (m, n_feat) terminates; it never makes
\* more than m * n_feat stores nor stores twice to a cell, and when it
\* returns it has made exactly m * n_feat stores, one to each cell (k, c),
\* so that no cell of a buffer that held other contents keeps them.
C15_SinglePass ==
    /\ []((ValidInput /\ ExactShape) =>
            /\ Len(wlog) <= m * NFeat(n)
            /\ \A kk \in Rows, cc \in FeatCols :
                  Cardinality(StoresTo(kk, cc)) <= 1
            /\ Returned =>
                  /\ Len(wlog) = m * NFeat(n)
                  /\ \A kk \in Rows, cc \in FeatCols :
                        Cardinality(StoresTo(kk, cc)) = 1
                  /\ ~Rerun => \A a \in Cells(rm, rc) : resmem[a] # res0[a])
    /\ []((ValidInput /\ ExactShape) => <>Returned)

C15_Witness ==
    /\ Returned /\ ExactShape /\ m = 2 /\ n = 2
    /\ Len(wlog) = 10 /\ ~Rerun
    /\ Cardinality(StoresTo(1, 4)) = 1
    /\ res0[9] = 0 - 10 /\ resmem[9] > 0

\* C16: with a column-major res of shape (m, n_feat) the t-th store of a
\* call (t = 0, 1, ...) lands at linear address t = c*m + k: the address
\* grows by one at every store, across column and outer-loop boundaries.
C16_SequentialWrites ==
    (ValidInput /\ ExactShape /\ resorder = "F") =>
        /\ \A t \in Stores :
              /\ wlog[t].addr = t - 1
              /\ wlog[t].addr = wlog[t].col * m + wlog[t].row
        /\ Returned => Len(wlog) = m * NFeat(n)

C16_Witness ==
    /\ Returned /\ ExactShape /\ resorder = "F" /\ m = 2 /\ n = 2
    /\ wlog[2].col = 0 /\ wlog[3].col = 1 /\ wlog[3].addr = 2
    /\ wlog[6].src = <<0, 1>> /\ wlog[7].src = <<1>> /\ wlog[7].addr = 6
    /\ wlog[10].addr = 9

====
